---- MODULE Spec2Model ----
(***************************************************************************)
(* Model of the CPU device manager of glow                                 *)
(* (lib/Backends/CPU/CPUDeviceManager.h and .cpp): the function registry   *)
(* functions_, the buffer map buffers_, the memory counter                 *)
(* usedMemoryBytes_, and the handlers addNetworkImpl, evictNetworkImpl and *)
(* runFunctionImpl.  Every handler is one action; the callbacks a handler  *)
(* fires are recorded, in order, in the call record `last`.                *)
(***************************************************************************)
EXTENDS Integers, Sequences, FiniteSets, TLC

VARIABLES
    maxMemoryBytes_,    \* device capacity, fixed by the DeviceConfig
    functionCost_,      \* flat per-function cost, fixed at construction
    usedMemoryBytes_,   \* the memory counter
    functions_,         \* name -> compiled function
    buffers_,           \* name -> device buffer
    last,               \* record of the most recent call and its callbacks
    roundTrip           \* the latest successful load not yet fully evicted

vars == <<maxMemoryBytes_, functionCost_, usedMemoryBytes_, functions_,
          buffers_, last, roundTrip>>

----------------------------------------------------------------------------
(* Bounds of the model.                                                    *)

\* Largest number of functions in one addNetwork batch.
MaxBatch == 2

\* Number of distinct run identifiers the callers use.
MaxRunId == 2

----------------------------------------------------------------------------
(* Universe of inputs.                                                     *)

\* The receiving function of peer-to-peer transfers, and its input symbol.
RecvFunction == "recv_func"

RecvInput == "recv_input"

Names == {"A", "B", RecvFunction}

Backends == {"CPU", "Interpreter"}

\* Device configurations: the capacity the DeviceConfig supplies and the
\* flat cost charged per function.
DeviceConfigs ==
    {[maxMemoryBytes |-> 2, functionCost |-> 1],
     [maxMemoryBytes |-> 1000, functionCost |-> 400]}

RunIds == 1..MaxRunId

\* Error values the handlers hand to their callbacks.
Success == "Success"
DuplicateFunction == "Failed to add network: already have a function called"
WrongBackend == "Failed to add network: function is not a CPUFunction"
OutOfDeviceMemory == "RUNTIME_OUT_OF_DEVICE_MEMORY"
FunctionNotFound == "RUNTIME_NET_NOT_FOUND"
ExecuteFailed == "execute error"
RemoteAddressUnavailable == "Failed to find remote address."
SymbolNotFound == "SymbolNotFound"
PoolExhausted == "PoolExhausted"
UnknownRun == "UnknownRun"

\* The null pointer, and the region alignedAlloc returns when it succeeds.
NullPtr == 0

NameIndex(n) == CASE n = "A" -> 1 [] n = "B" -> 2 [] OTHER -> 3

alignedAlloc(n, kind, ok) ==
    IF ok THEN 64 * (2 * NameIndex(n) - (IF kind = "activations" THEN 1 ELSE 0))
    ELSE NullPtr

\* Outcomes of the two allocations of one function: does each succeed?
AllocOutcomes == [activations : BOOLEAN, weights : BOOLEAN]

\* Symbol tables of runtime bundles: without and with the input symbol.
NoSymbols == [s \in {} |-> [offset |-> 0]]

RecvSymbols == [s \in {RecvInput} |-> [offset |-> 16]]

\* A compiled function as addNetwork receives it.
CompiledFunction ==
    [compileBackendName : Backends, symbolTable : {NoSymbols, RecvSymbols}]

\* FunctionMapTy values: batches of 1..MaxBatch uniquely named functions.
\* Only the receiving function's symbol table is ever read, so only it
\* comes in both variants.
FunctionMaps ==
    UNION {{fs \in [S -> CompiledFunction] :
                \A n \in S : n # RecvFunction => fs[n].symbolTable = NoSymbols} :
              S \in {T \in SUBSET Names : Cardinality(T) \in 1..MaxBatch}}

\* Iteration orders of a map with the key set S.
Orders(S) ==
    {o \in [1..Cardinality(S) -> S] : \A i, j \in 1..Cardinality(S) :
                                         i # j => o[i] # o[j]}

\* Execution contexts: no device bindings yet, or bindings of an older run.
NoBindings == [bound |-> FALSE, activations |-> NullPtr, weights |-> NullPtr]

StaleBindings == [bound |-> TRUE, activations |-> NullPtr, weights |-> NullPtr]

Contexts == [tag : {"ctx1"}, deviceBindings : {NoBindings, StaleBindings},
             executed : {0}]

NoContext == [tag |-> "", deviceBindings |-> NoBindings, executed |-> 0]

----------------------------------------------------------------------------
(* Helpers on maps.                                                        *)

\* std::map::emplace: inserts only when the key is absent.
Emplace(m, k, v) ==
    IF k \in DOMAIN m THEN m
    ELSE [x \in DOMAIN m \cup {k} |-> IF x = k THEN v ELSE m[x]]

\* std::map::erase(key).
Erase(m, k) == [x \in DOMAIN m \ {k} |-> m[x]]

\* The device state a handler reads and writes.
DeviceState ==
    [functions_ |-> functions_, buffers_ |-> buffers_,
     usedMemoryBytes_ |-> usedMemoryBytes_]

----------------------------------------------------------------------------
(* Synchronous accessors.                                                  *)

getMaximumMemory == maxMemoryBytes_

availableOf(used) == maxMemoryBytes_ - used

getAvailableMemory == availableOf(usedMemoryBytes_)

memoryAvailableIn(used, estimate) == maxMemoryBytes_ >= used + estimate

isMemoryAvailable(estimate) == memoryAvailableIn(usedMemoryBytes_, estimate)

----------------------------------------------------------------------------
(* Callback invocations.  A handler's result carries the callbacks it      *)
(* fired, in order, as records of one shape.                               *)

ReadyCB(err) == [err |-> err, name |-> "", id |-> 0, context |-> NoContext]

EvictCB(functionName, err) ==
    [err |-> err, name |-> functionName, id |-> 0, context |-> NoContext]

ResultCB(id, err, context) ==
    [err |-> err, name |-> "", id |-> id, context |-> context]

----------------------------------------------------------------------------
(* addNetworkImpl.                                                         *)

\* functions_.count(func.first) != 0
alreadyHave(st, name) == name \in DOMAIN st.functions_

\* Mutant: the backend tag is never looked at.
isCPUFunction_unchecked(func) == TRUE

\* func.second->getCompileBackendName() != "CPU" is the negation of this.
isCPUFunction(func) == func.compileBackendName = "CPU"

\* The first loop: per function, in iteration order, the uniqueness check
\* and then the backend check; the error of the first failing check, or
\* Success when the loop runs to its end.
RECURSIVE checkFunctions(_, _, _, _)
checkFunctions(st, functions, order, i) ==
    IF i > Len(order) THEN Success
    ELSE IF alreadyHave(st, order[i]) THEN DuplicateFunction
    ELSE IF ~isCPUFunction(functions[order[i]]) THEN WrongBackend
    ELSE checkFunctions(st, functions, order, i + 1)

\* Mutant: the capacity comparison is off by one (>= for >).
notEnoughMemory_strict(used) == used + functionCost_ >= maxMemoryBytes_

\* usedMemoryBytes_ + functionCost_ > maxMemoryBytes_
notEnoughMemory(used) == used + functionCost_ > maxMemoryBytes_

\* Number of request buffers of one device buffer.
kMaxRequestsSupported == 1

SingleRequestBuffer(activationsBuffer, weightsBuffer) ==
    [activationsBuffer_ |-> activationsBuffer, weightsBuffer_ |-> weightsBuffer]

NoBusyRequestBuffers == [id \in {} |-> SingleRequestBuffer(NullPtr, NullPtr)]

\* The device buffer built from the two allocated regions: the regions
\* themselves, as the destructor and the run path use them, and the request
\* buffers, all free.
CPUBuffer(activationsBuffer, weightsBuffer) ==
    [activationsBuffer_ |-> activationsBuffer, weightsBuffer_ |-> weightsBuffer,
     reqBuffers_ |-> [i \in 1..kMaxRequestsSupported |->
                         SingleRequestBuffer(activationsBuffer, weightsBuffer)],
     busyRequestBuffers_ |-> NoBusyRequestBuffers]

\* Mutant: after a failed allocation the iteration ends without registering
\* a buffer for the function.
addOneFunction_skipBufferOnFailure(r, functions, name, outcome) ==
    LET activationsBuffer == alignedAlloc(name, "activations", outcome.activations)
        weightsBuffer == alignedAlloc(name, "weights", outcome.weights)
        failed == activationsBuffer = NullPtr \/ weightsBuffer = NullPtr
    IN  [st |-> [functions_ |-> Emplace(r.st.functions_, name, functions[name]),
                 buffers_ |-> IF failed THEN r.st.buffers_
                              ELSE Emplace(r.st.buffers_, name,
                                           CPUBuffer(activationsBuffer,
                                                     weightsBuffer)),
                 usedMemoryBytes_ |-> r.st.usedMemoryBytes_ + functionCost_],
         cbs |-> IF failed THEN Append(r.cbs, ReadyCB(OutOfDeviceMemory))
                 ELSE r.cbs]

\* Mutant: the flat cost is charged only once the allocations succeeded.
addOneFunction_chargeOnSuccess(r, functions, name, outcome) ==
    LET activationsBuffer == alignedAlloc(name, "activations", outcome.activations)
        weightsBuffer == alignedAlloc(name, "weights", outcome.weights)
        failed == activationsBuffer = NullPtr \/ weightsBuffer = NullPtr
    IN  [st |-> [functions_ |-> Emplace(r.st.functions_, name, functions[name]),
                 buffers_ |-> Emplace(r.st.buffers_, name,
                                      CPUBuffer(activationsBuffer, weightsBuffer)),
                 usedMemoryBytes_ |-> IF failed THEN r.st.usedMemoryBytes_
                                      ELSE r.st.usedMemoryBytes_ + functionCost_],
         cbs |-> IF failed THEN Append(r.cbs, ReadyCB(OutOfDeviceMemory))
                 ELSE r.cbs]

\* One iteration of the second loop, for the function `name`: register it,
\* charge the flat cost, allocate, report a failed allocation through the
\* callback (without returning), and register the buffer.
addOneFunction(r, functions, name, outcome) ==
    LET activationsBuffer == alignedAlloc(name, "activations", outcome.activations)
        weightsBuffer == alignedAlloc(name, "weights", outcome.weights)
        failed == activationsBuffer = NullPtr \/ weightsBuffer = NullPtr
    IN  [st |-> [functions_ |-> Emplace(r.st.functions_, name, functions[name]),
                 buffers_ |-> Emplace(r.st.buffers_, name,
                                      CPUBuffer(activationsBuffer, weightsBuffer)),
                 usedMemoryBytes_ |-> r.st.usedMemoryBytes_ + functionCost_],
         cbs |-> IF failed THEN Append(r.cbs, ReadyCB(OutOfDeviceMemory))
                 ELSE r.cbs]

RECURSIVE addFunctions(_, _, _, _, _)
addFunctions(r, functions, order, alloc, i) ==
    IF i > Len(order) THEN r
    ELSE addFunctions(addOneFunction(r, functions, order[i], alloc[order[i]]),
                      functions, order, alloc, i + 1)

\* The whole handler.  assertFailed records the outcome of
\* assert(usedMemoryBytes_ <= maxMemoryBytes_); the state is the one a build
\* without assertions continues with.
addNetworkImpl(st, functions, order, alloc) ==
    LET checked == checkFunctions(st, functions, order, 1)
    IN  IF checked # Success
        THEN [st |-> st, cbs |-> <<ReadyCB(checked)>>, assertFailed |-> FALSE]
        ELSE IF notEnoughMemory(st.usedMemoryBytes_)
        THEN [st |-> st, cbs |-> <<ReadyCB(OutOfDeviceMemory)>>,
              assertFailed |-> FALSE]
        ELSE LET r == addFunctions([st |-> st, cbs |-> <<>>], functions,
                                   order, alloc, 1)
             IN  [st |-> r.st,
                  cbs |-> Append(r.cbs, ReadyCB(Success)),
                  assertFailed |-> ~(r.st.usedMemoryBytes_ <= maxMemoryBytes_)]

\* Does the call get as far as the allocations?
reachesAllocation(st, functions, order) ==
    /\ checkFunctions(st, functions, order, 1) = Success
    /\ ~notEnoughMemory(st.usedMemoryBytes_)

AllSucceed(S) == [n \in S |-> [activations |-> TRUE, weights |-> TRUE]]

----------------------------------------------------------------------------
(* evictNetworkImpl.                                                       *)

\* The state after a successful evict of functionName.
afterEvict(st, functionName) ==
    [functions_ |-> Erase(st.functions_, functionName),
     buffers_ |-> Erase(st.buffers_, functionName),
     usedMemoryBytes_ |-> st.usedMemoryBytes_ - functionCost_]

\* Mutant: the counter is decremented before the lookup, found or not.
evictNetworkImpl_alwaysCharge(st, functionName) ==
    IF functionName \in DOMAIN st.functions_
    THEN [st |-> afterEvict(st, functionName),
          cbs |-> <<EvictCB(functionName, Success)>>,
          seen |-> <<afterEvict(st, functionName)>>]
    ELSE [st |-> [st EXCEPT !.usedMemoryBytes_ = @ - functionCost_],
          cbs |-> <<EvictCB(functionName, FunctionNotFound)>>,
          seen |-> <<[st EXCEPT !.usedMemoryBytes_ = @ - functionCost_]>>]

\* Mutant: the device buffer is not destroyed on evict.
evictNetworkImpl_keepBuffer(st, functionName) ==
    IF functionName \in DOMAIN st.functions_
    THEN [st |-> [afterEvict(st, functionName) EXCEPT !.buffers_ = st.buffers_],
          cbs |-> <<EvictCB(functionName, Success)>>,
          seen |-> <<[afterEvict(st, functionName) EXCEPT !.buffers_ = st.buffers_]>>]
    ELSE [st |-> st, cbs |-> <<EvictCB(functionName, FunctionNotFound)>>,
          seen |-> <<st>>]

\* Mutant: the callback fires right after the registry entry is erased,
\* before the counter is decremented and the buffer destroyed.
evictNetworkImpl_callbackEarly(st, functionName) ==
    IF functionName \in DOMAIN st.functions_
    THEN [st |-> afterEvict(st, functionName),
          cbs |-> <<EvictCB(functionName, Success)>>,
          seen |-> <<[st EXCEPT !.functions_ = Erase(@, functionName)]>>]
    ELSE [st |-> st, cbs |-> <<EvictCB(functionName, FunctionNotFound)>>,
          seen |-> <<st>>]

\* The handler; seen is the device state at the moment each callback fires.
evictNetworkImpl(st, functionName) ==
    IF functionName \in DOMAIN st.functions_
    THEN [st |-> afterEvict(st, functionName),
          cbs |-> <<EvictCB(functionName, Success)>>,
          seen |-> <<afterEvict(st, functionName)>>]
    ELSE [st |-> st, cbs |-> <<EvictCB(functionName, FunctionNotFound)>>,
          seen |-> <<st>>]

----------------------------------------------------------------------------
(* runFunctionImpl.                                                        *)

\* context->setDeviceBindings(cpuBindings)
setDeviceBindings(context, activationsBuffer, weightsBuffer) ==
    [context EXCEPT !.deviceBindings =
        [bound |-> TRUE, activations |-> activationsBuffer,
         weights |-> weightsBuffer]]

\* func->execute(context.get()): the function runs once on the context.
execute(context) == [context EXCEPT !.executed = @ + 1]

\* buffers_[function]: operator[] inserts an empty entry for an absent key.
bufferEntry(st, function) ==
    IF function \in DOMAIN st.buffers_ THEN st.buffers_[function]
    ELSE CPUBuffer(NullPtr, NullPtr)

\* Mutant: the device bindings are attached before the lookup.
runFunctionImpl_bindFirst(st, id, function, context, executeErr) ==
    LET buf == bufferEntry(st, function)
        bound == setDeviceBindings(context, buf.activationsBuffer_,
                                   buf.weightsBuffer_)
    IN  IF function \notin DOMAIN st.functions_
        THEN [st |-> st, cbs |-> <<ResultCB(id, FunctionNotFound, bound)>>]
        ELSE [st |-> [st EXCEPT !.buffers_ = Emplace(@, function, buf)],
              cbs |-> <<ResultCB(id, executeErr, execute(bound))>>]

\* Mutant: the run takes a request buffer for its identifier and gives it
\* back only when execute succeeded.
runFunctionImpl_leakOnFailure(st, id, function, context, executeErr) ==
    IF function \notin DOMAIN st.functions_
    THEN [st |-> st, cbs |-> <<ResultCB(id, FunctionNotFound, context)>>]
    ELSE LET buf == bufferEntry(st, function)
             bound == setDeviceBindings(context, buf.activationsBuffer_,
                                        buf.weightsBuffer_)
             held == [buf EXCEPT
                         !.reqBuffers_ = SubSeq(@, 1, Len(@) - 1),
                         !.busyRequestBuffers_ =
                             [x \in DOMAIN @ \cup {id} |->
                                 IF x = id THEN buf.reqBuffers_[Len(buf.reqBuffers_)]
                                 ELSE @[x]]]
         IN  [st |-> IF executeErr # Success /\ Len(buf.reqBuffers_) > 0
                     THEN [st EXCEPT !.buffers_ =
                              [x \in DOMAIN @ \cup {function} |->
                                  IF x = function THEN held ELSE @[x]]]
                     ELSE [st EXCEPT !.buffers_ = Emplace(@, function, buf)],
              cbs |-> <<ResultCB(id, executeErr, execute(bound))>>]

\* Mutant: the run takes the request buffers off the free list and never
\* records or returns them.
runFunctionImpl_dropSlot(st, id, function, context, executeErr) ==
    IF function \notin DOMAIN st.functions_
    THEN [st |-> st, cbs |-> <<ResultCB(id, FunctionNotFound, context)>>]
    ELSE LET buf == bufferEntry(st, function)
             bound == setDeviceBindings(context, buf.activationsBuffer_,
                                        buf.weightsBuffer_)
         IN  [st |-> [st EXCEPT !.buffers_ =
                         [x \in DOMAIN @ \cup {function} |->
                             IF x = function THEN [buf EXCEPT !.reqBuffers_ = <<>>]
                             ELSE @[x]]],
              cbs |-> <<ResultCB(id, executeErr, execute(bound))>>]

runFunctionImpl(st, id, function, context, executeErr) ==
    IF function \notin DOMAIN st.functions_
    THEN [st |-> st, cbs |-> <<ResultCB(id, FunctionNotFound, context)>>]
    ELSE LET buf == bufferEntry(st, function)
             bound == setDeviceBindings(context, buf.activationsBuffer_,
                                        buf.weightsBuffer_)
         IN  [st |-> [st EXCEPT !.buffers_ = Emplace(@, function, buf)],
              cbs |-> <<ResultCB(id, executeErr, execute(bound))>>]

----------------------------------------------------------------------------
(* Results of the calls that return a value instead of firing a callback.  *)

NoSlot == SingleRequestBuffer(NullPtr, NullPtr)

NoResult == [kind |-> "none", err |-> Success, address |-> 0, slot |-> NoSlot]

ErrorResult(err) == [kind |-> "error", err |-> err, address |-> 0, slot |-> NoSlot]

AddressResult(address) ==
    [kind |-> "address", err |-> Success, address |-> address, slot |-> NoSlot]

BufferResult(slot) ==
    [kind |-> "buffer", err |-> Success, address |-> 0, slot |-> slot]

\* The process died (a wild read or write was caught by the hardware).
CrashResult == [kind |-> "crash", err |-> Success, address |-> 0, slot |-> NoSlot]

----------------------------------------------------------------------------
(* CPUBuffer::getUnownedRequestBuffer and CPUBuffer::freeRequestBuffer.    *)
(* Each runs under the buffer's mutex_, hence as one step.                 *)

\* Mutant: a request buffer is handed out without being taken off the
\* free list.
getUnownedRequestBuffer_keepFree(buf, id) ==
    IF Len(buf.reqBuffers_) = 0
    THEN [buf |-> buf, result |-> ErrorResult(PoolExhausted)]
    ELSE LET slot == buf.reqBuffers_[Len(buf.reqBuffers_)]
         IN  [buf |-> [buf EXCEPT !.busyRequestBuffers_ =
                          [x \in DOMAIN @ \cup {id} |->
                              IF x = id THEN slot ELSE @[x]]],
              result |-> BufferResult(slot)]

getUnownedRequestBuffer(buf, id) ==
    IF Len(buf.reqBuffers_) = 0
    THEN [buf |-> buf, result |-> ErrorResult(PoolExhausted)]
    ELSE LET slot == buf.reqBuffers_[Len(buf.reqBuffers_)]
         IN  [buf |-> [buf EXCEPT
                          !.reqBuffers_ = SubSeq(@, 1, Len(@) - 1),
                          !.busyRequestBuffers_ =
                              [x \in DOMAIN @ \cup {id} |->
                                  IF x = id THEN slot ELSE @[x]]],
              result |-> BufferResult(slot)]

\* Mutant: a release of an unknown run identifier puts a buffer on the free
\* list all the same.
freeRequestBuffer_unchecked(buf, id) ==
    IF id \notin DOMAIN buf.busyRequestBuffers_
    THEN [buf |-> [buf EXCEPT !.reqBuffers_ =
                      Append(@, SingleRequestBuffer(buf.activationsBuffer_,
                                                    buf.weightsBuffer_))],
          result |-> NoResult]
    ELSE [buf |-> [buf EXCEPT
                      !.reqBuffers_ = Append(@, buf.busyRequestBuffers_[id]),
                      !.busyRequestBuffers_ = Erase(@, id)],
          result |-> NoResult]

freeRequestBuffer(buf, id) ==
    IF id \notin DOMAIN buf.busyRequestBuffers_
    THEN [buf |-> buf, result |-> ErrorResult(UnknownRun)]
    ELSE [buf |-> [buf EXCEPT
                      !.reqBuffers_ = Append(@, buf.busyRequestBuffers_[id]),
                      !.busyRequestBuffers_ = Erase(@, id)],
          result |-> NoResult]

getNumAvailableBuffers(buf) == Len(buf.reqBuffers_)

----------------------------------------------------------------------------
(* getRemotePeerToPeerAddress.                                             *)

\* Placeholder bindings the caller passes: with or without the input.
PlaceholderBindings == {{}, {RecvInput}}

ChannelIds == {0, 1}

\* What dereferencing a null pointer or an end iterator leads to: the
\* process dies, or some value is read and an address is made of it.
UndefinedResults(baseAddress) ==
    {CrashResult} \cup {AddressResult(baseAddress + offset) : offset \in {0, 16, 4096}}

\* The set of results the call can produce, and the state it leaves.
getRemotePeerToPeerAddress(st, channelId, bindings) ==
    IF RecvFunction \notin DOMAIN st.functions_
    THEN [st |-> st, results |-> {ErrorResult(RemoteAddressUnavailable)}]
    ELSE LET buf == bufferEntry(st, RecvFunction)
             baseAddress == buf.weightsBuffer_
             symbolTable == st.functions_[RecvFunction].symbolTable
         IN  [st |-> [st EXCEPT !.buffers_ = Emplace(@, RecvFunction, buf)],
              results |->
                  IF RecvInput \notin bindings
                      \/ RecvFunction \notin DOMAIN st.buffers_
                  THEN UndefinedResults(baseAddress)
                  ELSE IF RecvInput \notin DOMAIN symbolTable
                  THEN UndefinedResults(baseAddress)
                  ELSE {AddressResult(baseAddress + symbolTable[RecvInput].offset)}]

----------------------------------------------------------------------------
(* The state machine.                                                      *)

NoFunctions ==
    [n \in {} |-> [compileBackendName |-> "CPU", symbolTable |-> NoSymbols]]

NoBuffers == [n \in {} |-> CPUBuffer(NullPtr, NullPtr)]

NoRoundTrip ==
    [active |-> FALSE, batch |-> {}, pending |-> {},
     pre |-> [functions_ |-> NoFunctions, buffers_ |-> NoBuffers,
              usedMemoryBytes_ |-> 0]]

NoAlloc == [n \in {} |-> [activations |-> TRUE, weights |-> TRUE]]

Call(op, functions, alloc, functionName, id, context, pre, cbs, assertFailed) ==
    [op |-> op, functions |-> functions, alloc |-> alloc,
     functionName |-> functionName,
     id |-> id, context |-> context, pre |-> pre, cbs |-> cbs,
     assertFailed |-> assertFailed]

\* What else a call record holds: the outcome execute had, the value the
\* call returned, the device states its callbacks saw, the bindings passed.
Details(executeErr, result, seen, bindings) ==
    [executeErr |-> executeErr, result |-> result, seen |-> seen,
     bindings |-> bindings]

NoDetails == Details(Success, NoResult, <<>>, {})

\* No call is served once the process has died.
Alive == last.result.kind # "crash"

Init ==
    /\ \E config \in DeviceConfigs :
          /\ maxMemoryBytes_ = config.maxMemoryBytes
          /\ functionCost_ = config.functionCost
    /\ usedMemoryBytes_ = 0
    /\ functions_ = NoFunctions
    /\ buffers_ = NoBuffers
    /\ last = Call("construct", NoFunctions, NoAlloc, "", 0, NoContext,
                   [functions_ |-> NoFunctions, buffers_ |-> NoBuffers,
                    usedMemoryBytes_ |-> 0], <<>>, FALSE) @@ NoDetails
    /\ roundTrip = NoRoundTrip

Commit(st) ==
    /\ functions_' = st.functions_
    /\ buffers_' = st.buffers_
    /\ usedMemoryBytes_' = st.usedMemoryBytes_
    /\ UNCHANGED <<maxMemoryBytes_, functionCost_>>

AddNetwork ==
    /\ Alive
    /\ \E functions \in FunctionMaps :
      \E order \in Orders(DOMAIN functions) :
        \E alloc \in (IF reachesAllocation(DeviceState, functions, order)
                      THEN [DOMAIN functions -> AllocOutcomes]
                      ELSE {AllSucceed(DOMAIN functions)}) :
          LET res == addNetworkImpl(DeviceState, functions, order, alloc)
          IN  /\ Commit(res.st)
              /\ last' = Call("addNetwork", functions, alloc, "", 0, NoContext,
                              DeviceState, res.cbs, res.assertFailed)
                          @@ NoDetails
              /\ roundTrip' = IF res.cbs = <<ReadyCB(Success)>>
                              THEN [active |-> TRUE, batch |-> DOMAIN functions,
                                    pending |-> DOMAIN functions,
                                    pre |-> DeviceState]
                              ELSE NoRoundTrip

EvictNetwork ==
    /\ Alive
    /\ \E functionName \in Names :
      LET res == evictNetworkImpl(DeviceState, functionName)
      IN  /\ Commit(res.st)
          /\ last' = Call("evictNetwork", NoFunctions, NoAlloc, functionName, 0,
                          NoContext, DeviceState, res.cbs, FALSE)
                      @@ Details(Success, NoResult, res.seen, {})
          /\ roundTrip' = IF roundTrip.active /\ functionName \in roundTrip.pending
                          THEN [roundTrip EXCEPT !.pending = @ \ {functionName}]
                          ELSE NoRoundTrip

RunFunction ==
    /\ Alive
    /\ \E id \in RunIds, function \in Names, context \in Contexts,
       executeErr \in {Success, ExecuteFailed} :
      LET res == runFunctionImpl(DeviceState, id, function, context, executeErr)
      IN  /\ Commit(res.st)
          /\ last' = Call("runFunction", NoFunctions, NoAlloc, function, id, context,
                          DeviceState, res.cbs, FALSE)
                      @@ Details(executeErr, NoResult, <<>>, {})
          /\ roundTrip' = NoRoundTrip

GetRemotePeerToPeerAddress ==
    /\ Alive
    /\ \E channelId \in ChannelIds, bindings \in PlaceholderBindings :
         LET res == getRemotePeerToPeerAddress(DeviceState, channelId, bindings)
         IN  \E result \in res.results :
               /\ Commit(res.st)
               /\ last' = Call("getRemotePeerToPeerAddress", NoFunctions, NoAlloc,
                               RecvFunction, channelId, NoContext, DeviceState,
                               <<>>, FALSE)
                           @@ Details(Success, result, <<>>, bindings)
               /\ roundTrip' = NoRoundTrip

Next ==
    \/ AddNetwork
    \/ EvictNetwork
    \/ RunFunction
    \/ GetRemotePeerToPeerAddress

Spec == Init /\ [][Next]_vars

----------------------------------------------------------------------------
(* The device together with callers of the request buffers of its device   *)
(* buffers.  Loads here are of functions without symbols whose allocations *)
(* succeed.                                                                *)

PoolFunctionMaps ==
    {fs \in FunctionMaps : \A n \in DOMAIN fs : fs[n].symbolTable = NoSymbols}

AddNetworkAllocated ==
    /\ Alive
    /\ \E functions \in PoolFunctionMaps :
         \E order \in Orders(DOMAIN functions) :
           LET alloc == AllSucceed(DOMAIN functions)
               res == addNetworkImpl(DeviceState, functions, order, alloc)
           IN  /\ Commit(res.st)
               /\ last' = Call("addNetwork", functions, alloc, "", 0, NoContext,
                               DeviceState, res.cbs, res.assertFailed)
                           @@ NoDetails
               /\ roundTrip' = NoRoundTrip

PoolCall(op, function, id, r) ==
    /\ buffers_' = [buffers_ EXCEPT ![function] = r.buf]
    /\ UNCHANGED <<maxMemoryBytes_, functionCost_, usedMemoryBytes_, functions_>>
    /\ last' = Call(op, NoFunctions, NoAlloc, function, id, NoContext,
                    DeviceState, <<>>, FALSE)
                @@ Details(Success, r.result, <<>>, {})
    /\ roundTrip' = NoRoundTrip

GetUnownedRequestBuffer ==
    /\ Alive
    /\ \E function \in DOMAIN buffers_, id \in RunIds :
         PoolCall("getUnownedRequestBuffer", function, id,
                  getUnownedRequestBuffer(buffers_[function], id))

FreeRequestBuffer ==
    /\ Alive
    /\ \E function \in DOMAIN buffers_, id \in RunIds :
         PoolCall("freeRequestBuffer", function, id,
                  freeRequestBuffer(buffers_[function], id))

PoolNext ==
    \/ AddNetworkAllocated
    \/ EvictNetwork
    \/ RunFunction
    \/ GetUnownedRequestBuffer
    \/ FreeRequestBuffer

PoolSpec == Init /\ [][PoolNext]_vars

----------------------------------------------------------------------------
(* Vocabulary of the properties: the latest call and its arguments.        *)

IsLoad == last.op = "addNetwork"

IsEvict == last.op = "evictNetwork"

IsRun == last.op = "runFunction"

Batch == DOMAIN last.functions

Registered == DOMAIN functions_

RegisteredBefore == DOMAIN last.pre.functions_

Unchanged == DeviceState = last.pre

AllNew == Batch \cap RegisteredBefore = {}

AllCPU == \A n \in Batch : last.functions[n].compileBackendName = "CPU"

\* The latest load got as far as its allocations, and one of them failed.
AllocationFailed ==
    /\ IsLoad
    /\ AllNew
    /\ AllCPU
    /\ last.pre.usedMemoryBytes_ + functionCost_ <= maxMemoryBytes_
    /\ \E n \in Batch : ~last.alloc[n].activations \/ ~last.alloc[n].weights

HasNullRegion(buf) ==
    buf.activationsBuffer_ = NullPtr \/ buf.weightsBuffer_ = NullPtr

----------------------------------------------------------------------------
(* C1: in every reachable state usedMemoryBytes_ <= maxMemoryBytes_, and   *)
(* the assert at the end of addNetworkImpl never fails.                    *)
C1_UsedWithinMaximum ==
    /\ usedMemoryBytes_ <= maxMemoryBytes_
    /\ ~last.assertFailed

(* C2: a load of k new CPU functions whose whole-batch reservation         *)
(* (k times the flat cost) would exceed the maximum fails with             *)
(* OutOfDeviceMemory and changes nothing.                                  *)
C2_BatchAdmissionAllOrNothing ==
    (/\ IsLoad
     /\ AllNew
     /\ AllCPU
     /\ last.pre.usedMemoryBytes_ + Cardinality(Batch) * functionCost_
            > maxMemoryBytes_)
    => (last.cbs = <<ReadyCB(OutOfDeviceMemory)>> /\ Unchanged)

(* C3: a load whose batch contains an already registered name fails with   *)
(* DuplicateFunction and changes nothing.                                  *)
C3_DuplicateAlwaysReported ==
    (IsLoad /\ ~AllNew)
    => (last.cbs = <<ReadyCB(DuplicateFunction)>> /\ Unchanged)

(* C4, as stated: a load whose batch contains a function that is not a     *)
(* CPU function fails with WrongBackend and changes nothing, whatever the  *)
(* position of that function.                                              *)
C4_WrongBackendAlwaysReported ==
    (IsLoad /\ ~AllCPU)
    => (last.cbs = <<ReadyCB(WrongBackend)>> /\ Unchanged)

(* C4, amended: such a load fails before any mutation with exactly one     *)
(* callback; the error is WrongBackend when no name of the batch is        *)
(* already registered, and WrongBackend or DuplicateFunction otherwise.    *)
C4_WrongBackendRejected ==
    (IsLoad /\ ~AllCPU)
    => /\ Unchanged
       /\ Len(last.cbs) = 1
       /\ last.cbs[1] \in {ReadyCB(WrongBackend), ReadyCB(DuplicateFunction)}
       /\ AllNew => last.cbs = <<ReadyCB(WrongBackend)>>

C4_Witness ==
    /\ IsLoad
    /\ AllNew
    /\ Cardinality(Batch) = 2
    /\ \E n \in Batch : last.functions[n].compileBackendName = "CPU"
    /\ \E n \in Batch : last.functions[n].compileBackendName # "CPU"
    /\ Registered # {}

(* C5: every load invokes onReady exactly once, and never with success     *)
(* after a failure.                                                        *)
C5_ReadyExactlyOnce ==
    IsLoad => Len(last.cbs) = 1

(* C6: when an allocation fails during a load, no function of the batch    *)
(* is registered or has a buffer afterwards, usedMemoryBytes_ is as        *)
(* before, and no buffer with a null region is registered.                 *)
C6_AllocationFailureAbortsCleanly ==
    AllocationFailed
    => /\ Batch \cap Registered = {}
       /\ Batch \cap DOMAIN buffers_ = {}
       /\ usedMemoryBytes_ = last.pre.usedMemoryBytes_
       /\ \A n \in DOMAIN buffers_ : ~HasNullRegion(buffers_[n])

(* C7: evict of a name that is not registered fires onEvicted exactly once *)
(* with FunctionNotFound and leaves registry, buffer map, usedMemoryBytes_ *)
(* and getAvailableMemory() as they were.                                  *)
C7_EvictUnknownIsNoOp ==
    (IsEvict /\ last.functionName \notin RegisteredBefore)
    => /\ last.cbs = <<EvictCB(last.functionName, FunctionNotFound)>>
       /\ Unchanged
       /\ getAvailableMemory = availableOf(last.pre.usedMemoryBytes_)

C7_Witness ==
    /\ IsEvict
    /\ last.functionName \notin RegisteredBefore
    /\ Registered # {}
    /\ usedMemoryBytes_ > 0

(* C8: once every function of a successfully loaded batch has been         *)
(* evicted again, registry, buffer map, usedMemoryBytes_ and               *)
(* getAvailableMemory() are what they were before the load.                *)
C8_LoadEvictRoundTrip ==
    (roundTrip.active /\ roundTrip.pending = {})
    => /\ DeviceState = roundTrip.pre
       /\ getAvailableMemory = availableOf(roundTrip.pre.usedMemoryBytes_)

C8_Witness ==
    /\ roundTrip.active
    /\ roundTrip.pending = {}
    /\ Cardinality(roundTrip.batch) = 2
    /\ Registered # {}

(* C9: a load of one new CPU function is admitted iff                      *)
(* usedMemoryBytes_ + functionCost_ <= maxMemoryBytes_; on admission the   *)
(* counter grows by exactly functionCost_, on rejection the error is       *)
(* OutOfDeviceMemory and nothing changes; and after a rejection, evicting  *)
(* a registered function so that the cost fits again makes the same load   *)
(* succeed.                                                                *)
SingleNewCPULoad == IsLoad /\ Cardinality(Batch) = 1 /\ AllNew /\ AllCPU

Rejected == SingleNewCPULoad /\ last.cbs = <<ReadyCB(OutOfDeviceMemory)>> /\ Unchanged

RetryAfterEvict(m) ==
    LET evicted == evictNetworkImpl(DeviceState, m).st
        order == CHOOSE o \in Orders(Batch) : TRUE
        retried == addNetworkImpl(evicted, last.functions, order, AllSucceed(Batch))
    IN  evicted.usedMemoryBytes_ + functionCost_ <= maxMemoryBytes_
        => /\ retried.cbs = <<ReadyCB(Success)>>
           /\ Batch \subseteq DOMAIN retried.st.functions_
           /\ retried.st.usedMemoryBytes_ = evicted.usedMemoryBytes_ + functionCost_

C9_SingleLoadAdmission ==
    SingleNewCPULoad
    => /\ IF last.pre.usedMemoryBytes_ + functionCost_ <= maxMemoryBytes_
          THEN /\ Batch \subseteq Registered
               /\ usedMemoryBytes_ = last.pre.usedMemoryBytes_ + functionCost_
               /\ last.cbs[Len(last.cbs)] = ReadyCB(Success)
          ELSE Rejected
       /\ Rejected => \A m \in Registered : RetryAfterEvict(m)

C9_Witness ==
    /\ Rejected
    /\ maxMemoryBytes_ = 1000
    /\ functionCost_ = 400
    /\ usedMemoryBytes_ = 800
    /\ Cardinality(Registered) = 2

(* C10: run of a name that is not registered fires onResult exactly once   *)
(* with the caller's run identifier, FunctionNotFound and the context as   *)
(* passed in (no bindings attached, nothing executed), and leaves          *)
(* registry, buffers and usedMemoryBytes_ unchanged.                       *)
C10_RunUnknownReturnsContext ==
    (IsRun /\ last.functionName \notin RegisteredBefore)
    => /\ last.cbs = <<ResultCB(last.id, FunctionNotFound, last.context)>>
       /\ Unchanged

C10_Witness ==
    /\ IsRun
    /\ last.functionName \notin RegisteredBefore
    /\ last.context.deviceBindings = NoBindings
    /\ last.id = 2
    /\ Registered # {}

----------------------------------------------------------------------------
(* Vocabulary of the properties about request buffers and addresses.       *)

IsAcquire == last.op = "getUnownedRequestBuffer"

IsRelease == last.op = "freeRequestBuffer"

IsResolve == last.op = "getRemotePeerToPeerAddress"

RunsLoadedFunction == IsRun /\ last.functionName \in RegisteredBefore

\* The device buffer the latest call was about, before and after it.
BufferBefore == last.pre.buffers_[last.functionName]

BufferNow == buffers_[last.functionName]

FreeSlots(buf) == {buf.reqBuffers_[i] : i \in 1..Len(buf.reqBuffers_)}

BusySlots(buf) == {buf.busyRequestBuffers_[id] : id \in DOMAIN buf.busyRequestBuffers_}

SamePartition(a, b) ==
    /\ a.reqBuffers_ = b.reqBuffers_
    /\ a.busyRequestBuffers_ = b.busyRequestBuffers_

----------------------------------------------------------------------------
C12_RunReportsPoolExhausted ==
    (/\ RunsLoadedFunction
     /\ Len(BufferBefore.reqBuffers_) = 0
     /\ last.id \notin DOMAIN BufferBefore.busyRequestBuffers_)
    => /\ last.cbs = <<ResultCB(last.id, PoolExhausted, last.context)>>
       /\ Unchanged

(* C13: an acquire succeeds exactly when a request buffer is free: it then *)
(* moves one free buffer under the run identifier, and otherwise fails     *)
(* with PoolExhausted and changes nothing; so at most                      *)
(* kMaxRequestsSupported run identifiers hold buffers at a time, and they  *)
(* hold pairwise distinct ones.                                            *)
C13_AcquireUntilExhausted ==
    /\ IsAcquire
       => IF Len(BufferBefore.reqBuffers_) > 0
          THEN /\ last.result.kind = "buffer"
               /\ last.result.slot \in FreeSlots(BufferBefore)
               /\ last.id \in DOMAIN BufferNow.busyRequestBuffers_
               /\ BufferNow.busyRequestBuffers_[last.id] = last.result.slot
               /\ Len(BufferNow.reqBuffers_) = Len(BufferBefore.reqBuffers_) - 1
               /\ \A id \in DOMAIN BufferBefore.busyRequestBuffers_ \ {last.id} :
                     /\ id \in DOMAIN BufferNow.busyRequestBuffers_
                     /\ BufferNow.busyRequestBuffers_[id]
                            = BufferBefore.busyRequestBuffers_[id]
          ELSE /\ last.result = ErrorResult(PoolExhausted)
               /\ Unchanged
    /\ \A n \in DOMAIN buffers_ :
          /\ Cardinality(DOMAIN buffers_[n].busyRequestBuffers_)
                 <= kMaxRequestsSupported
          /\ Len(buffers_[n].reqBuffers_) = 0
                 <=> Cardinality(DOMAIN buffers_[n].busyRequestBuffers_)
                         = kMaxRequestsSupported

C13_Witness ==
    /\ IsAcquire
    /\ last.id = 2
    /\ last.result.kind = "buffer"
    /\ DOMAIN BufferNow.busyRequestBuffers_ = {2}
    /\ Len(BufferNow.reqBuffers_) = 0

C15_ReleaseUnknownRun ==
    (IsRelease /\ last.id \notin DOMAIN BufferBefore.busyRequestBuffers_)
    => /\ last.result = ErrorResult(UnknownRun)
       /\ Unchanged

C15_Witness ==
    /\ IsRelease
    /\ last.id \notin DOMAIN BufferBefore.busyRequestBuffers_
    /\ Len(BufferNow.reqBuffers_) = kMaxRequestsSupported
    /\ \E n \in DOMAIN buffers_ : Len(buffers_[n].reqBuffers_) = 0

(* C16: with the receiving function loaded on allocated regions and the    *)
(* input placeholder bound, the resolver fails with SymbolNotFound when the input symbol is  *)
(* absent from the function's symbol table, and returns an address, the    *)
(* weights base plus the symbol's offset, only when it is present.         *)
C16_MissingSymbolReported ==
    (/\ IsResolve
     /\ RecvFunction \in RegisteredBefore
     /\ ~HasNullRegion(BufferBefore)
     /\ RecvInput \in last.bindings)
    => LET symbolTable == last.pre.functions_[RecvFunction].symbolTable
       IN  IF RecvInput \in DOMAIN symbolTable
           THEN last.result
                = AddressResult(BufferBefore.weightsBuffer_
                                + symbolTable[RecvInput].offset)
           ELSE last.result = ErrorResult(SymbolNotFound)

(* C17: for a load of new CPU functions, isMemoryAvailable of the amount   *)
(* the load reserves (the flat cost per function of the batch) is true     *)
(* exactly when the load passes its capacity check.                        *)
C17_FitsAgreesWithAdmission ==
    (IsLoad /\ AllNew /\ AllCPU)
    => (maxMemoryBytes_ >= last.pre.usedMemoryBytes_
                              + Cardinality(Batch) * functionCost_
        <=> Batch \subseteq Registered)

(* C18: evict of a registered name fires onEvicted exactly once, with      *)
(* success, and when it fires the name is gone from the registry, its      *)
(* device buffer is destroyed and usedMemoryBytes_ is lower by             *)
(* functionCost_.                                                          *)
C18_EvictCallbackAfterStateChange ==
    (IsEvict /\ last.functionName \in RegisteredBefore)
    => /\ last.cbs = <<EvictCB(last.functionName, Success)>>
       /\ Len(last.seen) = 1
       /\ last.functionName \notin DOMAIN last.seen[1].functions_
       /\ last.functionName \notin DOMAIN last.seen[1].buffers_
       /\ last.seen[1].usedMemoryBytes_
          = last.pre.usedMemoryBytes_ - functionCost_
       /\ last.seen[1] = DeviceState

C18_Witness ==
    /\ IsEvict
    /\ last.functionName \in RegisteredBefore
    /\ Registered # {}

(* C19: the names in functions_ are the names in buffers_.                 *)
C19_RegistryMatchesBuffers ==
    Registered = DOMAIN buffers_

C19_Witness ==
    /\ IsResolve
    /\ RecvFunction \in Registered
    /\ last.result.kind = "address"
    /\ Cardinality(Registered) = 2
    /\ \E n \in DOMAIN buffers_ : HasNullRegion(buffers_[n])

(* C20: usedMemoryBytes_ is functionCost_ times the number of registered   *)
(* functions; so it is never negative, and run leaves it alone.            *)
C20_UsedIsCostTimesCount ==
    /\ usedMemoryBytes_ = functionCost_ * Cardinality(Registered)
    /\ usedMemoryBytes_ >= 0
    /\ IsRun => usedMemoryBytes_ = last.pre.usedMemoryBytes_

C20_Witness ==
    /\ IsEvict
    /\ last.functionName \in RegisteredBefore
    /\ Cardinality(Registered) = 1
    /\ \E n \in DOMAIN buffers_ : HasNullRegion(buffers_[n])

====
